---- MODULE Spec2Model ----
(***************************************************************************)
(* Model of LLMintegration/vectorstore_utils.py: chunked indexing of       *)
(* documents into a Chroma collection, metadata-filtered deletion, the     *)
(* lazy process-wide singletons, and the retrieval / aggregation layer.    *)
(*                                                                         *)
(* Python strings that the code inspects (document ids, chunk keys,        *)
(* post_id values) are sequences of one-character strings, so that         *)
(* f-string formatting, startswith, split and int() are computed as the    *)
(* code computes them.  None is the empty sequence <<>> wherever a value   *)
(* is optional, and <<v>> is the value v.                                  *)
(***************************************************************************)
EXTENDS Integers, Sequences, FiniteSets, TLC

VARIABLES
    vector_store,          \* the Chroma collection: chunk key -> Document
    _embedding_function,   \* module global, 0 is None, n > 0 an instance
    _vector_store,         \* module global, 0 is None, n > 0 an instance
    call,                  \* the public call made last, what its collaborators did, and the call before
    returned,              \* what that call gave its caller
    partially_applied,     \* history: some batched insert was applied in part
    pc,                    \* per thread: position inside get_vector_store / get_embedding_function
    locals,                \* per thread: the function it called, its local embedding_function, the instance it built
    got,                   \* per thread: the instance the call returned (0: not yet)
    ctor_runs,             \* history: how often each constructor ran
    ipc,                   \* per indexing process: position inside add_document_to_vectorstore
    iargs,                 \* per indexing process: its arguments; or those of a re-indexing call
    ibatch,                \* per indexing process: documents_to_add / chunk_ids_for_db, and how many are written
    istart,                \* history: the collection before the concurrent calls began
    ranking,               \* what the collection's similarity search ranks for the query
    search_call,           \* the semantic_search call made last
    search_returned,       \* its return value
    page_limit,            \* pagination session: the page size L
    pages                  \* pagination session: the results of the three calls

vars == <<vector_store, _embedding_function, _vector_store, call, returned,
          partially_applied, pc, locals, got, ctor_runs, ipc, iargs, ibatch, istart,
          ranking, search_call, search_returned, page_limit, pages>>

store_vars == <<vector_store, _embedding_function, _vector_store, call, returned,
                partially_applied>>
thread_vars == <<pc, locals, got, ctor_runs>>
index_vars == <<ipc, iargs, ibatch, istart>>
search_vars == <<ranking, search_call, search_returned>>
page_vars == <<page_limit, pages>>

-----------------------------------------------------------------------------
(* Bounds of the model.                                                    *)

\* longest text, in pieces of one chunk each
MaxTextLen == 2
\* largest k a retrieval call asks for
MaxK == 1
\* largest numeric id and chunk index the key-uniqueness check formats
MaxKeyNumber == 11
\* largest limit and largest offset of a semantic_search call
MaxLimit == 2
\* longest ranking drawn from all the kinds of hits
MaxShortRanking == 2
\* longest ranking drawn from the few kinds of hits that pagination needs
MaxRanking == 6
\* largest page size of a pagination session
MaxPageLimit == 1

-----------------------------------------------------------------------------
(* Python string operations.                                               *)

None == <<>>

Some(v) == <<v>>

DigitChars == <<"0", "1", "2", "3", "4", "5", "6", "7", "8", "9">>

IsDigit(c) == \E i \in 1..10 : DigitChars[i] = c

DigitValue(c) == (CHOOSE i \in 1..10 : DigitChars[i] = c) - 1

\* str(n) / f"{n}" of a non-negative int
RECURSIVE Str(_)
Str(n) ==
    IF n < 10 THEN <<DigitChars[n + 1]>>
    ELSE Str(n \div 10) \o <<DigitChars[(n % 10) + 1]>>

\* s.startswith(prefix)
StartsWith(s, prefix) ==
    /\ Len(s) >= Len(prefix)
    /\ SubSeq(s, 1, Len(prefix)) = prefix

\* s.split(sep) for a one-character sep: the fields between the separators
RECURSIVE Split(_, _)
Split(s, sep) ==
    IF \A i \in 1..Len(s) : s[i] # sep THEN <<s>>
    ELSE LET i == CHOOSE j \in 1..Len(s) :
                      /\ s[j] = sep
                      /\ \A k \in 1..(j - 1) : s[k] # sep
         IN  <<SubSeq(s, 1, i - 1)>> \o Split(SubSeq(s, i + 1, Len(s)), sep)

RECURSIVE DigitsValue(_)
DigitsValue(s) ==
    IF Len(s) = 0 THEN 0
    ELSE 10 * DigitsValue(SubSeq(s, 1, Len(s) - 1)) + DigitValue(s[Len(s)])

AllDigits(s) == Len(s) > 0 /\ \A i \in 1..Len(s) : IsDigit(s[i])

\* int(s): Some(n), or None where Python raises ValueError.  Over the
\* characters the model uses: an optional sign, then one or more digits.
ParseInt(s) ==
    IF AllDigits(s) THEN Some(DigitsValue(s))
    ELSE IF Len(s) > 1 /\ s[1] = "-" /\ AllDigits(Tail(s)) THEN Some(0 - DigitsValue(Tail(s)))
    ELSE IF Len(s) > 1 /\ s[1] = "+" /\ AllDigits(Tail(s)) THEN Some(DigitsValue(Tail(s)))
    ELSE None

\* {**base, **over}: the keys of both, over's values winning
DictMerge(base, over) ==
    [k \in (DOMAIN base) \cup (DOMAIN over) |->
        IF k \in DOMAIN over THEN over[k] ELSE base[k]]

\* d.get(key): Some(value) or None
DictGet(d, key) == IF key \in DOMAIN d THEN Some(d[key]) ELSE None

-----------------------------------------------------------------------------
(* Configuration and identifiers.                                          *)

ORIGINAL_DOC_ID_KEY == "original_doc_id"

CHUNK_INDEX_KEY == "chunk_index"

POST_ID_KEY == "post_id"

\* "<kind>_<numericId>", the form of the ids the callers index
DocId(kind, num) == kind \o <<"_">> \o Str(num)

Post == <<"p", "o", "s", "t">>

Comment == <<"c", "o", "m", "m", "e", "n", "t">>

Reply == <<"r", "e", "p", "l", "y">>

ChunkInfix == <<"_", "c", "h", "u", "n", "k", "_">>

\* a plausible slip: the key is built from the numeric id, the kind dropped
ChunkKeyWithoutKind(original_doc_id, i) ==
    SubSeq(original_doc_id, Len(original_doc_id), Len(original_doc_id)) \o ChunkInfix \o Str(i)

\* a plausible slip: the key is built from the chunk index alone
ChunkKeyNotNamespaced(original_doc_id, i) == <<"c", "h", "u", "n", "k", "_">> \o Str(i)

\* chunk_db_id = f"{original_doc_id}_chunk_{i}"
ChunkKey(original_doc_id, i) == original_doc_id \o ChunkInfix \o Str(i)

\* a plausible slip: the caller's metadata is spread last and wins
ChunkMetadataCallerWins(metadata, original_doc_id, i) ==
    DictMerge([original_doc_id |-> original_doc_id, chunk_index |-> i], metadata)

\* chunk_metadata = {**metadata, ORIGINAL_DOC_ID_KEY: ..., CHUNK_INDEX_KEY: i}
ChunkMetadata(metadata, original_doc_id, i) ==
    DictMerge(metadata, [original_doc_id |-> original_doc_id, chunk_index |-> i])

-----------------------------------------------------------------------------
(* The collaborators: splitter, embedding model, Chroma collection.        *)

\* A text is a sequence of pieces: " " is whitespace, any other piece
\* ("a", "b") is content that fills one chunk of FALLBACK_CHUNK_SIZE_CHARS.
IsBlank(piece) == piece = " "

\* not text_content or not text_content.strip()
IsEmptyOrWhitespace(text) == \A i \in 1..Len(text) : IsBlank(text[i])

\* text_splitter.split_text(text_content): the content pieces in order,
\* the whitespace between them stripped
SplitText(text) ==
    LET HasContent(piece) == ~IsBlank(piece)
    IN  SelectSeq(text, HasContent)

\* Collection.upsert of the batch members in `applied`: a record is written
\* under its id, replacing the record that id held
Upsert(store, batch, applied) ==
    LET ids == {batch[i].id : i \in applied}
        Writer(k) == CHOOSE i \in applied :
                        /\ batch[i].id = k
                        /\ \A j \in applied : batch[j].id = k => j <= i
    IN  [k \in (DOMAIN store) \cup ids |->
            IF k \in ids THEN batch[Writer(k)].document ELSE store[k]]

\* a plausible slip: the where filter does not reach the collection, which
\* is emptied
DeleteWhereIgnored(store, key, value) == [k \in {} |-> store[k]]

\* a plausible slip: deletion by chunk id, which reaches the first chunk only
DeleteFirstChunkOnly(store, key, value) ==
    [k \in (DOMAIN store) \ {ChunkKey(value, 0)} |-> store[k]]

\* Collection.delete(where={key: value}): every record whose metadata has
\* that value under that key goes, the others stay
DeleteWhere(store, key, value) ==
    LET Matches(k) == /\ key \in DOMAIN store[k].metadata
                      /\ store[k].metadata[key] = value
    IN  [k \in {x \in DOMAIN store : ~Matches(x)} |-> store[k]]

\* The collection's native order of its records, fixed for a fixed state
RECURSIVE NativeOrder(_)
NativeOrder(keys) ==
    IF keys = {} THEN <<>>
    ELSE LET k == CHOOSE x \in keys : TRUE
         IN  <<k>> \o NativeOrder(keys \ {k})

Reverse(s) == [i \in 1..Len(s) |-> s[Len(s) + 1 - i]]

Queries == {"q1", "q2"}

\* The records as the similarity search ranks them for a query (a text or
\* a vector): deterministic for a fixed collection, different per query
Ranked(store, query) ==
    LET order == NativeOrder(DOMAIN store)
        keys == IF query = "q1" THEN order ELSE Reverse(order)
    IN  [i \in 1..Len(keys) |->
            [id |-> keys[i], page_content |-> store[keys[i]].page_content,
             metadata |-> store[keys[i]].metadata]]

Min(a, b) == IF a <= b THEN a ELSE b

\* the first k elements of a sequence
Take(s, k) == SubSeq(s, 1, Min(k, Len(s)))

\* similarity_search(query, k): the k best ranked records
SimilaritySearch(store, query, k) == Take(Ranked(store, query), k)

\* What max_marginal_relevance_search may return: k of the fetch_k best
\* ranked records, in the order the greedy selection picks them
MmrResults(store, query, k, fetch_k) ==
    LET pool == Take(Ranked(store, query), fetch_k)
        n == Min(k, Len(pool))
    IN  {[i \in 1..n |-> pool[f[i]]] :
            f \in {g \in [1..n -> 1..Len(pool)] :
                      \A i, j \in 1..n : i # j => g[i] # g[j]}}

-----------------------------------------------------------------------------
(* The lazy singletons, run by one caller at a time.                        *)

\* get_embedding_function(): the global after the call, and whether the
\* constructor raised
GetEmbeddingFunction(ef, ef_raises) ==
    IF ef # 0 THEN [ef |-> ef, raised |-> FALSE]
    ELSE IF ef_raises THEN [ef |-> 0, raised |-> TRUE]
    ELSE [ef |-> 1, raised |-> FALSE]

\* get_vector_store(): both globals after the call, and whether a
\* constructor raised
GetVectorStore(ef, vs, ef_raises, vs_raises) ==
    IF vs # 0 THEN [ef |-> ef, vs |-> vs, raised |-> FALSE]
    ELSE LET e == GetEmbeddingFunction(ef, ef_raises)
         IN  IF e.raised THEN [ef |-> e.ef, vs |-> 0, raised |-> TRUE]
             ELSE IF vs_raises THEN [ef |-> e.ef, vs |-> 0, raised |-> TRUE]
             ELSE [ef |-> e.ef, vs |-> 1, raised |-> FALSE]

-----------------------------------------------------------------------------
(* semantic_search: from ranked chunks to a page of post ids.               *)

\* The over-fetch factor of fetch_k_chunks = (offset + limit) * 5
OverFetchFactor == 5

\* fetch_k_chunks
FetchKChunks(limit, offset) == (offset + limit) * OverFetchFactor

PostPrefix == Post \o <<"_">>

CommentPrefix == Comment \o <<"_">>

ReplyPrefix == Reply \o <<"_">>

\* a truthy Python string held in an optional: present and not empty
Truthy(opt) == opt # None /\ Len(opt[1]) > 0

\* a plausible slip: the numeric suffix of an id of any kind is taken
PostIdOfChunkAnyKind(chunk) ==
    IF DOMAIN chunk.metadata = {} THEN None
    ELSE LET original_doc_id == DictGet(chunk.metadata, ORIGINAL_DOC_ID_KEY)
         IN  IF Truthy(original_doc_id) /\ Len(Split(original_doc_id[1], "_")) >= 2
             THEN ParseInt(Split(original_doc_id[1], "_")[2])
             ELSE None

\* a plausible slip: the comment's own numeric suffix is taken as the post id
PostIdOfChunkOwnSuffix(chunk) ==
    IF DOMAIN chunk.metadata = {} THEN None
    ELSE LET original_doc_id == DictGet(chunk.metadata, ORIGINAL_DOC_ID_KEY)
         IN  IF Truthy(original_doc_id)
                /\ (\/ StartsWith(original_doc_id[1], PostPrefix)
                    \/ StartsWith(original_doc_id[1], CommentPrefix)
                    \/ StartsWith(original_doc_id[1], ReplyPrefix))
             THEN ParseInt(Split(original_doc_id[1], "_")[2])
             ELSE None

\* The body of the loop up to the test of post_id: the post id one chunk
\* resolves to, Some(n), or None when the chunk is skipped (no metadata,
\* unrecognized id, comment / reply without post_id, ValueError of int())
PostIdOfChunk(chunk) ==
    IF DOMAIN chunk.metadata = {} THEN None
    ELSE LET original_doc_id == DictGet(chunk.metadata, ORIGINAL_DOC_ID_KEY)
         IN  IF Truthy(original_doc_id) /\ StartsWith(original_doc_id[1], PostPrefix)
             THEN ParseInt(Split(original_doc_id[1], "_")[2])
             ELSE IF Truthy(original_doc_id)
                     /\ (\/ StartsWith(original_doc_id[1], CommentPrefix)
                         \/ StartsWith(original_doc_id[1], ReplyPrefix))
             THEN LET post_id_str == DictGet(chunk.metadata, POST_ID_KEY)
                  IN  IF Truthy(post_id_str) THEN ParseInt(post_id_str[1]) ELSE None
             ELSE None

\* a plausible slip: the seen-set test is left out
UniquePostIdsNoSeenTest(chunks, unique_post_ids) ==
    LET Resolved(i) == PostIdOfChunk(chunks[i]) # None /\ PostIdOfChunk(chunks[i])[1] # 0
        idx == {i \in 1..Len(chunks) : Resolved(i)}
        Nth(n) == CHOOSE i \in idx : Cardinality({j \in idx : j < i}) = n - 1
    IN  unique_post_ids \o [n \in 1..Cardinality(idx) |-> PostIdOfChunk(chunks[Nth(n)])[1]]

\* The loop over all_results_chunks: unique_post_ids grows by the post id
\* of each chunk whose id is truthy and not yet seen (seen_post_ids is the
\* set of the elements of unique_post_ids)
RECURSIVE UniquePostIds(_, _)
UniquePostIds(chunks, unique_post_ids) ==
    IF Len(chunks) = 0 THEN unique_post_ids
    ELSE LET post_id == PostIdOfChunk(Head(chunks))
             seen_post_ids == {unique_post_ids[i] : i \in 1..Len(unique_post_ids)}
         IN  IF post_id # None /\ post_id[1] # 0 /\ post_id[1] \notin seen_post_ids
             THEN UniquePostIds(Tail(chunks), Append(unique_post_ids, post_id[1]))
             ELSE UniquePostIds(Tail(chunks), unique_post_ids)

\* a plausible slip: the page is cut by limit alone
PySliceFromStart(s, from, to) == SubSeq(s, 1, Min(to - from, Len(s)))

\* s[from:to] for 0 <= from <= to
PySlice(s, from, to) == SubSeq(s, from + 1, Min(to, Len(s)))

\* a plausible slip: the fetched chunks cover the page alone, not the offset
SemanticSearchFetchPageOnly(ranked, limit, offset) ==
    PySlice(UniquePostIds(Take(ranked, limit * OverFetchFactor), <<>>), offset, offset + limit)

\* semantic_search(query, limit, offset) on a collection that ranks
\* `ranked` for the query, when no collaborator raises
SemanticSearch(ranked, limit, offset) ==
    LET all_results_chunks == Take(ranked, FetchKChunks(limit, offset))
        unique_post_ids == UniquePostIds(all_results_chunks, <<>>)
    IN  PySlice(unique_post_ids, offset, offset + limit)

-----------------------------------------------------------------------------
(* The public operations, one caller at a time.                             *)

DocIds == {DocId(Post, 1), DocId(Comment, 1)}

\* caller metadata: a comment's owning post; and a dict that carries the
\* two reserved keys itself, with other values
MetaOwner == [post_id |-> <<"2">>]

MetaReserved == [original_doc_id |-> DocId(Comment, 1), chunk_index |-> 7]

\* the words of a text, joined by whitespace
RECURSIVE JoinWords(_)
JoinWords(words) ==
    IF Len(words) <= 1 THEN words
    ELSE <<Head(words), " ">> \o JoinWords(Tail(words))

\* the texts made of one content piece repeated, and the two degenerate texts
TextsOf(piece) ==
    {<<>>, <<" ">>} \cup {JoinWords([i \in 1..n |-> piece]) : n \in 1..MaxTextLen}

\* The (text_content, metadata) pairs the callers index: two versions of a
\* document, differing in content and in metadata
Versions ==
    {<<t, MetaOwner>> : t \in TextsOf("a")} \cup {<<t, MetaReserved>> : t \in TextsOf("b")}

NoSearchCall == [made |-> FALSE, limit |-> 0, offset |-> 0]

NoPages == [first |-> None, second |-> None, single |-> None]

ReturnNone == [outcome |-> "None", value |-> <<>>]

ReturnList(v) == [outcome |-> "list", value |-> v]

Raise == [outcome |-> "raised", value |-> <<>>]

\* a plausible slip: an except clause too narrow for the collaborator's error
ExceptValueErrorOnly(raised, normal, default) == IF raised THEN Raise ELSE normal

\* try: ... except Exception: log, then fall through / return the default
TryExcept(raised, normal, default) == IF raised THEN default ELSE normal

\* a plausible slip: the chunks are counted from 1
BuildBatchCountedFromOne(original_doc_id, text_chunks, metadata) ==
    [n \in 1..Len(text_chunks) |->
        [id |-> ChunkKey(original_doc_id, n),
         document |-> [page_content |-> text_chunks[n],
                       metadata |-> ChunkMetadata(metadata, original_doc_id, n)]]]

\* documents_to_add and chunk_ids_for_db, built by the loop over text_chunks
BuildBatch(original_doc_id, text_chunks, metadata) ==
    [n \in 1..Len(text_chunks) |->
        [id |-> ChunkKey(original_doc_id, n - 1),
         document |-> [page_content |-> text_chunks[n],
                       metadata |-> ChunkMetadata(metadata, original_doc_id, n - 1)]]]

\* The sets of batch members add_documents may have written when it
\* returns: all of them; when it raises: any of them
AppliedSets(batch, insert_raises) ==
    IF insert_raises THEN SUBSET (1..Len(batch)) ELSE {1..Len(batch)}

\* What the collaborators may do during one call: nothing wrong, the
\* embedding constructor raises, the Chroma constructor raises (each only
\* if the call runs it), or the collection's own call raises
FailureModes ==
    {"no", "collaborator"}
        \cup (IF _vector_store = 0 THEN {"chroma"} ELSE {})
        \cup (IF _vector_store = 0 /\ _embedding_function = 0 THEN {"embedding"} ELSE {})

GetVectorStoreUnder(mode) ==
    GetVectorStore(_embedding_function, _vector_store, mode = "embedding", mode = "chroma")

Failed(gvs, mode) ==
    IF gvs.raised THEN "init" ELSE IF mode = "collaborator" THEN "collaborator" ELSE "no"

\* the record of a call: what was called, for which document, what failed,
\* and the same of the call before it
Called(op, doc, failed) ==
    [op |-> op, doc |-> doc, failed |-> failed,
     prev |-> [op |-> call.op, doc |-> call.doc, failed |-> call.failed]]

InitIdle ==
    /\ pc = <<>>
    /\ locals = <<>>
    /\ got = <<>>
    /\ ctor_runs = <<>>
    /\ ipc = <<>>
    /\ iargs = <<>>
    /\ ibatch = <<>>
    /\ istart = <<>>
    /\ ranking = <<>>
    /\ search_call = NoSearchCall
    /\ search_returned = <<>>
    /\ page_limit = 0
    /\ pages = NoPages

Init ==
    /\ vector_store = <<>>
    /\ _embedding_function = 0
    /\ _vector_store = 0
    /\ call = [op |-> "none", doc |-> <<>>, failed |-> "no",
               prev |-> [op |-> "none", doc |-> <<>>, failed |-> "no"]]
    /\ returned = ReturnNone
    /\ partially_applied = FALSE
    /\ InitIdle

other_vars == <<thread_vars, index_vars, search_vars, page_vars>>

\* add_document_to_vectorstore(original_doc_id, text_content, metadata)
AddDocumentToVectorstore(original_doc_id, text_content, metadata) ==
    \E mode \in FailureModes :
        LET gvs == GetVectorStoreUnder(mode)
            text_chunks == SplitText(text_content)
            batch == BuildBatch(original_doc_id, text_chunks, metadata)
        IN  IF IsEmptyOrWhitespace(text_content)
            THEN /\ mode = "no"
                 /\ call' = Called("add", original_doc_id, "no")
                 /\ returned' = TryExcept(FALSE, ReturnNone, ReturnNone)
                 /\ UNCHANGED <<vector_store, _embedding_function, _vector_store,
                                partially_applied>>
            ELSE /\ _embedding_function' = gvs.ef
                 /\ _vector_store' = gvs.vs
                 /\ call' = Called("add", original_doc_id, Failed(gvs, mode))
                 /\ returned' = TryExcept(Failed(gvs, mode) # "no", ReturnNone, ReturnNone)
                 /\ IF gvs.raised \/ Len(text_chunks) = 0
                    THEN UNCHANGED <<vector_store, partially_applied>>
                    ELSE \E applied \in AppliedSets(batch, mode = "collaborator") :
                         /\ vector_store' = Upsert(vector_store, batch, applied)
                         /\ partially_applied' =
                                (partially_applied
                                    \/ (applied # {} /\ applied # 1..Len(batch)))

\* delete_document_from_vectorstore(original_doc_id)
DeleteDocumentFromVectorstore(original_doc_id) ==
    \E mode \in FailureModes :
        LET gvs == GetVectorStoreUnder(mode)
            filter_value == original_doc_id
        IN  /\ _embedding_function' = gvs.ef
            /\ _vector_store' = gvs.vs
            /\ UNCHANGED partially_applied
            /\ call' = Called("delete", original_doc_id, Failed(gvs, mode))
            /\ returned' = TryExcept(Failed(gvs, mode) # "no", ReturnNone, ReturnNone)
            /\ IF Failed(gvs, mode) # "no"
               THEN UNCHANGED vector_store
               ELSE vector_store' =
                        DeleteWhere(vector_store, ORIGINAL_DOC_ID_KEY, filter_value)

Ids(hits) == [i \in 1..Len(hits) |-> hits[i].id]

\* search_vectorstore(query, k, fetch_k, lambda_mult)
SearchVectorstore(query, k, fetch_k) ==
    \E mode \in FailureModes :
        LET gvs == GetVectorStoreUnder(mode)
        IN  /\ _embedding_function' = gvs.ef
            /\ _vector_store' = gvs.vs
            /\ UNCHANGED <<vector_store, partially_applied>>
            /\ call' = Called("search", <<>>, Failed(gvs, mode))
            /\ \E results \in MmrResults(vector_store, query, k, fetch_k) :
                   returned' = TryExcept(Failed(gvs, mode) # "no",
                                         ReturnList(Ids(results)), ReturnList(<<>>))

\* search_by_vector(embedding_vector, k, fetch_k, lambda_mult, use_mmr)
SearchByVector(embedding_vector, k, fetch_k, use_mmr) ==
    \E mode \in FailureModes :
        LET gvs == GetVectorStoreUnder(mode)
            found == IF use_mmr
                     THEN MmrResults(vector_store, embedding_vector, k, fetch_k)
                     ELSE {SimilaritySearch(vector_store, embedding_vector, k)}
        IN  /\ _embedding_function' = gvs.ef
            /\ _vector_store' = gvs.vs
            /\ UNCHANGED <<vector_store, partially_applied>>
            /\ call' = Called("search_by_vector", <<>>, Failed(gvs, mode))
            /\ \E results \in found :
                   returned' = TryExcept(Failed(gvs, mode) # "no",
                                         ReturnList(Ids(results)), ReturnList(<<>>))

\* semantic_search(query, limit, offset) against the collection
SemanticSearchStore(query, limit, offset) ==
    \E mode \in FailureModes :
        LET gvs == GetVectorStoreUnder(mode)
        IN  /\ _embedding_function' = gvs.ef
            /\ _vector_store' = gvs.vs
            /\ UNCHANGED <<vector_store, partially_applied>>
            /\ call' = Called("semantic_search", <<>>, Failed(gvs, mode))
            /\ returned' =
                   TryExcept(Failed(gvs, mode) # "no",
                             ReturnList(SemanticSearch(Ranked(vector_store, query),
                                                       limit, offset)),
                             ReturnList(<<>>))

\* Indexing and deleting, over all documents
Add == 
    /\ UNCHANGED other_vars
    /\ \E d \in DocIds, v \in Versions : AddDocumentToVectorstore(d, v[1], v[2])

Delete ==
    /\ UNCHANGED other_vars
    /\ \E d \in DocIds : DeleteDocumentFromVectorstore(d)

Next == Add \/ Delete

Spec == Init /\ [][Next]_vars

\* All five public operations, over one document
AddOne ==
    /\ UNCHANGED other_vars
    /\ \E v \in Versions : AddDocumentToVectorstore(DocId(Comment, 1), v[1], v[2])

DeleteOne ==
    /\ UNCHANGED other_vars
    /\ DeleteDocumentFromVectorstore(DocId(Comment, 1))

Search ==
    /\ UNCHANGED other_vars
    /\ \E q \in Queries, k \in 0..MaxK, extra \in 0..1 : SearchVectorstore(q, k, k + extra)

SearchVector ==
    /\ UNCHANGED other_vars
    /\ \E q \in Queries, k \in 0..MaxK, extra \in 0..1, use_mmr \in BOOLEAN :
           SearchByVector(q, k, k + extra, use_mmr)

SearchSemantic ==
    /\ UNCHANGED other_vars
    /\ \E q \in Queries, limit \in 0..MaxLimit, offset \in 0..MaxLimit :
           SemanticSearchStore(q, limit, offset)

NextPublic == AddOne \/ DeleteOne \/ Search \/ SearchVector \/ SearchSemantic

SpecPublic == Init /\ [][NextPublic]_vars

\* Indexing and deleting, over all documents, keeping the arguments of an
\* indexing call that directly follows a successful delete of the same
\* document (in iargs, which is <<>> after every other call)
AddAfterDelete ==
    /\ UNCHANGED <<thread_vars, ipc, ibatch, istart, search_vars, page_vars>>
    /\ \E d \in DocIds, v \in Versions :
           /\ AddDocumentToVectorstore(d, v[1], v[2])
           /\ iargs' = IF call.op = "delete" /\ call.failed = "no" /\ call.doc = d
                       THEN [original_doc_id |-> d, text_content |-> v[1], metadata |-> v[2]]
                       ELSE <<>>

DeleteBefore ==
    /\ UNCHANGED <<thread_vars, ipc, ibatch, istart, search_vars, page_vars>>
    /\ iargs' = <<>>
    /\ \E d \in DocIds : DeleteDocumentFromVectorstore(d)

NextReindex == AddAfterDelete \/ DeleteBefore

SpecReindex == Init /\ [][NextReindex]_vars

-----------------------------------------------------------------------------
(* The lazy singletons under concurrent first calls (SpecThreads).          *)
(* Each thread runs get_vector_store or get_embedding_function; a step is   *)
(* what one thread does between two points where another may run.           *)

\* number of threads making a first call
NumThreads == 2

Threads == 1..NumThreads

InitThreads ==
    /\ vector_store = <<>>
    /\ _embedding_function = 0
    /\ _vector_store = 0
    /\ call = <<>>
    /\ returned = <<>>
    /\ partially_applied = FALSE
    /\ pc = [t \in Threads |-> "idle"]
    /\ locals = [t \in Threads |-> [fn |-> "none", embedding_function |-> 0, built |-> 0]]
    /\ got = [t \in Threads |-> 0]
    /\ ctor_runs = [embedding |-> 0, chroma |-> 0]
    /\ ipc = <<>>
    /\ iargs = <<>>
    /\ ibatch = <<>>
    /\ istart = <<>>
    /\ ranking = <<>>
    /\ search_call = NoSearchCall
    /\ search_returned = <<>>
    /\ page_limit = 0
    /\ pages = NoPages

not_thread_vars == <<vector_store, call, returned, partially_applied,
                     index_vars, search_vars, page_vars>>

\* a thread calls get_vector_store() or get_embedding_function()
CallFunction(t, fn) ==
    /\ pc[t] = "idle"
    /\ locals' = [locals EXCEPT ![t].fn = fn]
    /\ pc' = [pc EXCEPT ![t] = IF fn = "get_vector_store" THEN "gvs_test" ELSE "gef_test"]
    /\ UNCHANGED <<_embedding_function, _vector_store, got, ctor_runs, not_thread_vars>>

\* get_vector_store: if _vector_store is None
GvsTest(t) ==
    /\ pc[t] = "gvs_test"
    /\ pc' = [pc EXCEPT ![t] = IF _vector_store = 0 THEN "gef_test" ELSE "gvs_return"]
    /\ UNCHANGED <<_embedding_function, _vector_store, locals, got, ctor_runs,
                   not_thread_vars>>

\* get_embedding_function: if _embedding_function is None
GefTest(t) ==
    /\ pc[t] = "gef_test"
    /\ pc' = [pc EXCEPT ![t] = IF _embedding_function = 0 THEN "gef_construct"
                                ELSE "gef_return"]
    /\ UNCHANGED <<_embedding_function, _vector_store, locals, got, ctor_runs,
                   not_thread_vars>>

\* GoogleGenerativeAIEmbeddings(...) runs and builds a new instance
GefConstruct(t) ==
    /\ pc[t] = "gef_construct"
    /\ ctor_runs' = [ctor_runs EXCEPT !.embedding = @ + 1]
    /\ locals' = [locals EXCEPT ![t].built = ctor_runs.embedding + 1]
    /\ pc' = [pc EXCEPT ![t] = "gef_assign"]
    /\ UNCHANGED <<_embedding_function, _vector_store, got, not_thread_vars>>

\* _embedding_function = <the instance built>
GefAssign(t) ==
    /\ pc[t] = "gef_assign"
    /\ _embedding_function' = locals[t].built
    /\ pc' = [pc EXCEPT ![t] = "gef_return"]
    /\ UNCHANGED <<_vector_store, locals, got, ctor_runs, not_thread_vars>>

\* return _embedding_function: to the caller, or into the local
\* embedding_function of get_vector_store
GefReturn(t) ==
    /\ pc[t] = "gef_return"
    /\ IF locals[t].fn = "get_embedding_function"
       THEN /\ got' = [got EXCEPT ![t] = _embedding_function]
            /\ pc' = [pc EXCEPT ![t] = "done"]
            /\ UNCHANGED locals
       ELSE /\ locals' = [locals EXCEPT ![t].embedding_function = _embedding_function]
            /\ pc' = [pc EXCEPT ![t] = "gvs_construct"]
            /\ UNCHANGED got
    /\ UNCHANGED <<_embedding_function, _vector_store, ctor_runs, not_thread_vars>>

\* Chroma(...) runs and builds a new instance
GvsConstruct(t) ==
    /\ pc[t] = "gvs_construct"
    /\ ctor_runs' = [ctor_runs EXCEPT !.chroma = @ + 1]
    /\ locals' = [locals EXCEPT ![t].built = ctor_runs.chroma + 1]
    /\ pc' = [pc EXCEPT ![t] = "gvs_assign"]
    /\ UNCHANGED <<_embedding_function, _vector_store, got, not_thread_vars>>

\* _vector_store = <the instance built>
GvsAssign(t) ==
    /\ pc[t] = "gvs_assign"
    /\ _vector_store' = locals[t].built
    /\ pc' = [pc EXCEPT ![t] = "gvs_return"]
    /\ UNCHANGED <<_embedding_function, locals, got, ctor_runs, not_thread_vars>>

\* return _vector_store
GvsReturn(t) ==
    /\ pc[t] = "gvs_return"
    /\ got' = [got EXCEPT ![t] = _vector_store]
    /\ pc' = [pc EXCEPT ![t] = "done"]
    /\ UNCHANGED <<_embedding_function, _vector_store, locals, ctor_runs, not_thread_vars>>

NextThreads ==
    \/ \E t \in Threads, fn \in {"get_vector_store", "get_embedding_function"} :
           CallFunction(t, fn)
    \/ \E t \in Threads : GvsTest(t)
    \/ \E t \in Threads : GefTest(t)
    \/ \E t \in Threads : GefConstruct(t)
    \/ \E t \in Threads : GefAssign(t)
    \/ \E t \in Threads : GefReturn(t)
    \/ \E t \in Threads : GvsConstruct(t)
    \/ \E t \in Threads : GvsAssign(t)
    \/ \E t \in Threads : GvsReturn(t)

SpecThreads == InitThreads /\ [][NextThreads]_vars

-----------------------------------------------------------------------------
(* Two concurrent calls of add_document_to_vectorstore (SpecIndexers).      *)
(* The singletons are initialized; the collection writes the records of a   *)
(* batch one after the other, and another call's writes may fall between.   *)

Indexers == {1, 2}

\* The collection after add_document_to_vectorstore(original_doc_id,
\* text_content, metadata) ran alone on `store` and nothing raised
AddEffect(store, original_doc_id, text_content, metadata) ==
    IF IsEmptyOrWhitespace(text_content) THEN store
    ELSE LET batch == BuildBatch(original_doc_id, SplitText(text_content), metadata)
         IN  Upsert(store, batch, 1..Len(batch))

\* what the collection may hold when the calls begin: nothing, or an
\* earlier version of both documents
StartStores ==
    {<<>>} \cup
    {AddEffect(AddEffect(<<>>, DocId(Post, 1), v[1], v[2]), DocId(Comment, 1), v[1], v[2]) :
        v \in {w \in Versions : Len(SplitText(w[1])) = MaxTextLen}}

InitIndexers ==
    /\ vector_store \in StartStores
    /\ istart = vector_store
    /\ _embedding_function = 1
    /\ _vector_store = 1
    /\ call = <<>>
    /\ returned = <<>>
    /\ partially_applied = FALSE
    /\ pc = <<>>
    /\ locals = <<>>
    /\ got = <<>>
    /\ ctor_runs = <<>>
    /\ ipc = [p \in Indexers |-> "start"]
    /\ \E d1, d2 \in DocIds, v1, v2 \in Versions :
           /\ d1 # d2
           /\ iargs = <<[original_doc_id |-> d1, text_content |-> v1[1], metadata |-> v1[2]],
                        [original_doc_id |-> d2, text_content |-> v2[1], metadata |-> v2[2]]>>
    /\ ibatch = [p \in Indexers |-> [batch |-> <<>>, written |-> 0]]
    /\ ranking = <<>>
    /\ search_call = NoSearchCall
    /\ search_returned = <<>>
    /\ page_limit = 0
    /\ pages = NoPages

not_index_vars == <<_embedding_function, _vector_store, call, returned, partially_applied,
                    thread_vars, search_vars, page_vars, istart, iargs>>

\* if not text_content or not text_content.strip(): return
IndexerTest(p) ==
    /\ ipc[p] = "start"
    /\ ipc' = [ipc EXCEPT ![p] = IF IsEmptyOrWhitespace(iargs[p].text_content)
                                  THEN "done" ELSE "get_vector_store"]
    /\ UNCHANGED <<vector_store, ibatch, not_index_vars>>

\* vector_store = get_vector_store(), the global being set already
IndexerGetStore(p) ==
    /\ ipc[p] = "get_vector_store"
    /\ _vector_store # 0
    /\ ipc' = [ipc EXCEPT ![p] = "split"]
    /\ UNCHANGED <<vector_store, ibatch, not_index_vars>>

\* split_text and the loop that builds documents_to_add / chunk_ids_for_db
IndexerBuild(p) ==
    /\ ipc[p] = "split"
    /\ LET text_chunks == SplitText(iargs[p].text_content)
           batch == BuildBatch(iargs[p].original_doc_id, text_chunks, iargs[p].metadata)
       IN  /\ ibatch' = [ibatch EXCEPT ![p] = [batch |-> batch, written |-> 0]]
           /\ ipc' = [ipc EXCEPT ![p] = IF Len(batch) = 0 THEN "done" ELSE "add_documents"]
    /\ UNCHANGED <<vector_store, not_index_vars>>

\* add_documents: the collection writes the next record of the batch
IndexerWrite(p) ==
    /\ ipc[p] = "add_documents"
    /\ LET n == ibatch[p].written + 1
       IN  /\ vector_store' = Upsert(vector_store, ibatch[p].batch, {n})
           /\ ibatch' = [ibatch EXCEPT ![p].written = n]
           /\ ipc' = [ipc EXCEPT ![p] = IF n = Len(ibatch[p].batch) THEN "done"
                                         ELSE "add_documents"]
    /\ UNCHANGED not_index_vars

NextIndexers ==
    \/ \E p \in Indexers : IndexerTest(p)
    \/ \E p \in Indexers : IndexerGetStore(p)
    \/ \E p \in Indexers : IndexerBuild(p)
    \/ \E p \in Indexers : IndexerWrite(p)

SpecIndexers == InitIndexers /\ [][NextIndexers]_vars

-----------------------------------------------------------------------------
(* semantic_search over what the collection ranks (SpecSearch, SpecPage).   *)
(* The ranking is the collaborator's: any sequence of hits.  Of a hit the   *)
(* aggregation reads the metadata alone.                                    *)

Widget3 == <<"w", "i", "d", "g", "e", "t", "_", "3">>

\* a chunk of the document `original_doc_id`, indexed with the caller's `extra`
HitOf(original_doc_id, extra) ==
    [metadata |-> DictMerge(extra, [original_doc_id |-> original_doc_id])]

\* ids <kind>_<numericId> of rows of the posts tables, whose keys start at 1
WellFormedHits ==
    {HitOf(DocId(Post, 1), <<>>),
     HitOf(DocId(Post, 2), <<>>),
     HitOf(DocId(Comment, 9), [post_id |-> <<"4", "1">>]),
     HitOf(DocId(Reply, 3), [post_id |-> <<"1">>])}

\* hits the aggregation cannot attribute to a post
UnattributableHits ==
    {HitOf(DocId(Comment, 9), <<>>),
     HitOf(DocId(Reply, 3), [post_id |-> <<>>]),
     HitOf(Widget3, <<>>),
     [metadata |-> <<>>],
     [metadata |-> [post_id |-> <<"2">>]]}

\* hits with a malformed numeric part
MalformedHits ==
    {HitOf(PostPrefix, <<>>),
     HitOf(PostPrefix \o <<"a", "b", "c">>, <<>>),
     HitOf(PostPrefix \o <<"1", "2", "_", "x">>, <<>>),
     HitOf(PostPrefix \o <<"1", "2", "a", "b", "c">>, <<>>),
     HitOf(DocId(Comment, 2), [post_id |-> <<"4", "x">>])}

AllHits == WellFormedHits \cup UnattributableHits \cup MalformedHits

PageHits == {HitOf(DocId(Post, 1), <<>>), HitOf(DocId(Post, 2), <<>>), HitOf(Widget3, <<>>)}

SeqsUpTo(S, n) == UNION {[1..m -> S] : m \in 0..n}

Rankings == SeqsUpTo(AllHits, MaxShortRanking) \cup SeqsUpTo(PageHits, MaxRanking)

InitNoStore ==
    /\ vector_store = <<>>
    /\ _embedding_function = 1
    /\ _vector_store = 1
    /\ call = <<>>
    /\ returned = <<>>
    /\ partially_applied = FALSE
    /\ pc = <<>>
    /\ locals = <<>>
    /\ got = <<>>
    /\ ctor_runs = <<>>
    /\ ipc = <<>>
    /\ iargs = <<>>
    /\ ibatch = <<>>
    /\ istart = <<>>

InitSearch ==
    /\ InitNoStore
    /\ ranking \in Rankings
    /\ search_call = NoSearchCall
    /\ search_returned = <<>>
    /\ page_limit = 0
    /\ pages = NoPages

\* semantic_search(query, limit, offset), no collaborator raising: the one
\* call made against this ranking
CallSemanticSearch(limit, offset) ==
    /\ ~search_call.made
    /\ search_call' = [made |-> TRUE, limit |-> limit, offset |-> offset]
    /\ search_returned' = SemanticSearch(ranking, limit, offset)
    /\ UNCHANGED <<ranking, store_vars, thread_vars, index_vars, page_vars>>

NextSearch == \E limit \in 0..MaxLimit, offset \in 0..MaxLimit : CallSemanticSearch(limit, offset)

SpecSearch == InitSearch /\ [][NextSearch]_vars

InitPage ==
    /\ InitNoStore
    /\ ranking \in SeqsUpTo(PageHits, MaxRanking)
    /\ search_call = NoSearchCall
    /\ search_returned = <<>>
    /\ page_limit \in 1..MaxPageLimit
    /\ pages = NoPages

\* semantic_search(q, L, 0)
FirstPage ==
    /\ pages.first = None
    /\ pages' = [pages EXCEPT !.first = Some(SemanticSearch(ranking, page_limit, 0))]
    /\ UNCHANGED <<page_limit, search_vars, store_vars, thread_vars, index_vars>>

\* semantic_search(q, L, L)
SecondPage ==
    /\ pages.second = None
    /\ pages' = [pages EXCEPT !.second = Some(SemanticSearch(ranking, page_limit, page_limit))]
    /\ UNCHANGED <<page_limit, search_vars, store_vars, thread_vars, index_vars>>

\* semantic_search(q, 2L, 0)
SingleCall ==
    /\ pages.single = None
    /\ pages' = [pages EXCEPT !.single = Some(SemanticSearch(ranking, 2 * page_limit, 0))]
    /\ UNCHANGED <<page_limit, search_vars, store_vars, thread_vars, index_vars>>

NextPage == FirstPage \/ SecondPage \/ SingleCall

SpecPage == InitPage /\ [][NextPage]_vars

-----------------------------------------------------------------------------
(* Properties of indexing and deleting (Spec).                              *)

\* the keys of the records whose metadata names document d as their original
RecordsOf(store, d) ==
    {k \in DOMAIN store : store[k].metadata[ORIGINAL_DOC_ID_KEY] = d}

\* the chunk keys of document d, whatever its chunk count
KeysOf(d) == {ChunkKey(d, i) : i \in 0..MaxKeyNumber}

Succeeded(c, op) == c.op = op /\ c.failed = "no"

\* C1: add_document_to_vectorstore(d, text, metadata) followed by
\* delete_document_from_vectorstore(d), both succeeding, leaves no record
\* whose metadata original_doc_id is d, whatever the caller's metadata held
\* and whatever the collection held before; nor does any chunk of d stay
\* behind under another original_doc_id.
C1_IndexThenDeleteLeavesNone ==
    (/\ Succeeded(call, "delete")
     /\ Succeeded(call.prev, "add")
     /\ call.prev.doc = call.doc)
        => /\ RecordsOf(vector_store, call.doc) = {}
           /\ KeysOf(call.doc) \cap DOMAIN vector_store = {}

\* C1 happens: a document was indexed and then deleted while the other
\* document's records, indexed with metadata naming the deleted one, stay
C1_Witness ==
    /\ Succeeded(call, "delete")
    /\ Succeeded(call.prev, "add")
    /\ call.prev.doc = call.doc
    /\ call.doc = DocId(Comment, 1)
    /\ \E k \in DOMAIN vector_store :
           /\ k \in KeysOf(DocId(Post, 1))
           /\ vector_store[k].page_content = "b"

\* the document ids <kind>_<numericId> the key check ranges over
KeyCheckDocIds == {DocId(kind, n) : kind \in {Post, Comment, Reply}, n \in 0..MaxKeyNumber}

\* no two different documents share a chunk key
ChunkKeysUnique ==
    \A d1, d2 \in KeyCheckDocIds :
        d1 # d2 => \A i, j \in 0..MaxKeyNumber : ChunkKey(d1, i) # ChunkKey(d2, j)

\* C4: chunk keys of different document ids never collide, and so a call
\* of add_document_to_vectorstore changes or removes no record of a
\* document other than its own.
C4_ChunkKeysGloballyUnique ==
    /\ [](ChunkKeysUnique)
    /\ [][call'.op = "add" =>
            \A k \in DOMAIN vector_store :
                vector_store[k].metadata[ORIGINAL_DOC_ID_KEY] # call'.doc
                    => /\ k \in DOMAIN vector_store'
                       /\ vector_store'[k] = vector_store[k]]_vars

\* C4 happens: two documents were indexed one after the other and the
\* records of both are in the collection
C4_Witness ==
    /\ Succeeded(call, "add")
    /\ Succeeded(call.prev, "add")
    /\ call.prev.doc # call.doc
    /\ Cardinality(RecordsOf(vector_store, call.doc)) = MaxTextLen
    /\ Cardinality(RecordsOf(vector_store, call.prev.doc)) = MaxTextLen

\* the chunk_index values of d's records are 0..n-1, each held once
ChunkIndexesContiguous(store, d) ==
    LET recs == RecordsOf(store, d)
    IN  {store[k].metadata[CHUNK_INDEX_KEY] : k \in recs} = 0..(Cardinality(recs) - 1)

C13_DeleteRemovesExactlyTheDocument ==
    [][(call'.op = "delete" /\ call'.failed = "no") =>
          /\ DOMAIN vector_store' =
                 (DOMAIN vector_store) \ RecordsOf(vector_store, call'.doc)
          /\ \A k \in DOMAIN vector_store' : vector_store'[k] = vector_store[k]
          /\ returned' = ReturnNone
          /\ RecordsOf(vector_store, call'.doc) = {} => vector_store' = vector_store]_vars

\* C13 happens: after another document was indexed, a document was
\* deleted, and all the records of the other one are still there
C13_Witness ==
    /\ Succeeded(call, "delete")
    /\ call.doc = DocId(Post, 1)
    /\ Succeeded(call.prev, "add")
    /\ call.prev.doc = DocId(Comment, 1)
    /\ ~partially_applied
    /\ Cardinality(RecordsOf(vector_store, DocId(Comment, 1))) = MaxTextLen
    /\ RecordsOf(vector_store, DocId(Post, 1)) = {}

\* C14: after a successful delete_document_from_vectorstore(d) directly
\* followed by a successful add_document_to_vectorstore(d, t, m), the
\* records of d are exactly one per chunk i of the split of t, under the
\* key d_chunk_i, with chunk i as text and with m as metadata except that
\* original_doc_id is d and chunk_index is i; none when t is empty or
\* whitespace; and no chunk key of d holds anything else.
C14_DeleteThenReindexYieldsTheNewDocument ==
    (/\ Succeeded(call, "add")
     /\ Succeeded(call.prev, "delete")
     /\ call.prev.doc = call.doc) =>
        LET d == call.doc
            t == iargs.text_content
            m == iargs.metadata
            chunks == SplitText(t)
            Expected(i) ==
                [page_content |-> chunks[i + 1],
                 metadata |-> [k \in (DOMAIN m) \cup {ORIGINAL_DOC_ID_KEY, CHUNK_INDEX_KEY} |->
                                  IF k = ORIGINAL_DOC_ID_KEY THEN d
                                  ELSE IF k = CHUNK_INDEX_KEY THEN i
                                  ELSE m[k]]]
        IN  /\ iargs.original_doc_id = d
            /\ RecordsOf(vector_store, d) = {ChunkKey(d, i) : i \in 0..(Len(chunks) - 1)}
            /\ KeysOf(d) \cap DOMAIN vector_store = RecordsOf(vector_store, d)
            /\ \A i \in 0..(Len(chunks) - 1) : vector_store[ChunkKey(d, i)] = Expected(i)
            /\ IsEmptyOrWhitespace(t) => RecordsOf(vector_store, d) = {}

\* C14 happens: a document was deleted and indexed again, with a text of
\* several chunks and metadata that carries the reserved keys itself, while
\* the other document's records are in the collection
C14_Witness ==
    /\ Succeeded(call, "add")
    /\ Succeeded(call.prev, "delete")
    /\ call.prev.doc = call.doc
    /\ call.doc = DocId(Post, 1)
    /\ iargs.metadata = MetaReserved
    /\ Len(SplitText(iargs.text_content)) = MaxTextLen
    /\ Cardinality(RecordsOf(vector_store, DocId(Post, 1))) = MaxTextLen
    /\ RecordsOf(vector_store, DocId(Comment, 1)) # {}

-----------------------------------------------------------------------------
(* Fail-soft (SpecPublic).                                                  *)

\* C7: no public operation raises to its caller; when a collaborator or
\* its lazy initialization raises, indexing and deleting return None and
\* the three searches return an empty list.
C7_FailSoft ==
    /\ returned.outcome # "raised"
    /\ call.failed # "no" =>
           IF call.op \in {"add", "delete"}
           THEN returned = ReturnNone
           ELSE returned = ReturnList(<<>>)

\* C7 happens: the Chroma constructor raised under a search by vector,
\* after the embedding constructor had raised under an indexing call
C7_Witness ==
    /\ call.op = "search_by_vector"
    /\ call.failed = "init"
    /\ _embedding_function # 0
    /\ call.prev.op = "add"
    /\ call.prev.failed = "init"
    /\ returned = ReturnList(<<>>)

-----------------------------------------------------------------------------
(* The singletons (SpecThreads).                                            *)

\* C5: under any interleaving of concurrent first calls each constructor
\* runs at most once, and the callers of one function all receive the same
\* instance.
C5_InitializedAtMostOnce ==
    /\ ctor_runs.embedding <= 1
    /\ ctor_runs.chroma <= 1
    /\ \A t1, t2 \in Threads :
           (/\ pc[t1] = "done"
            /\ pc[t2] = "done"
            /\ locals[t1].fn = locals[t2].fn) => got[t1] = got[t2]

-----------------------------------------------------------------------------
(* Concurrent indexing of different documents (SpecIndexers).               *)

\* the collection after call p ran alone and then call q ran alone
OneAfterTheOther(p, q) ==
    AddEffect(AddEffect(istart, iargs[p].original_doc_id, iargs[p].text_content,
                        iargs[p].metadata),
              iargs[q].original_doc_id, iargs[q].text_content, iargs[q].metadata)

\* C8: two concurrent calls of add_document_to_vectorstore for different
\* document ids end, under every interleaving, in the collection that
\* running them one after the other (in either order) ends in, and no step
\* of one call changes a record of the other call's document.
C8_ConcurrentIndexingIsSafe ==
    /\ []((\A p \in Indexers : ipc[p] = "done")
            => /\ vector_store = OneAfterTheOther(1, 2)
               /\ vector_store = OneAfterTheOther(2, 1))
    /\ [][\A p \in Indexers :
            (ipc'[p] = ipc[p] /\ ibatch'[p] = ibatch[p]) =>
                \A k \in DOMAIN vector_store :
                    vector_store[k].metadata[ORIGINAL_DOC_ID_KEY] = iargs[p].original_doc_id
                        => /\ k \in DOMAIN vector_store'
                           /\ vector_store'[k] = vector_store[k]]_vars

\* C8 happens: both calls are done, each wrote a batch of several records
\* over the earlier versions the collection held, and the collection changed
C8_Witness ==
    /\ \A p \in Indexers : ipc[p] = "done" /\ ibatch[p].written = MaxTextLen
    /\ istart # <<>>
    /\ vector_store # istart

-----------------------------------------------------------------------------
(* The aggregation (SpecSearch).                                            *)

Elems(s) == {s[i] : i \in 1..Len(s)}

\* the chunks one call fetches: the (offset + limit) * 5 best ranked
Fetched == Take(ranking, (search_call.offset + search_call.limit) * OverFetchFactor)

\* C2: the list one semantic_search call returns holds no id twice.
C2_NoDuplicateIds ==
    \A i, j \in 1..Len(search_returned) :
        i # j => search_returned[i] # search_returned[j]

\* C2 happens: a post's chunk and a reply owned by the same post are both
\* ranked, and the call returned that post once
C2_Witness ==
    /\ search_call.made
    /\ Len(ranking) = 2
    /\ ranking[1] = HitOf(DocId(Reply, 3), [post_id |-> <<"1">>])
    /\ ranking[2] = HitOf(DocId(Post, 1), <<>>)
    /\ search_returned = <<1>>

\* the post id each chunk of a sequence resolves to, by position
Resolutions(chunks) == [i \in 1..Len(chunks) |-> PostIdOfChunk(chunks[i])]

\* the positions that resolve to a post id no earlier position resolved to
FirstAppearances(ids) ==
    {i \in 1..Len(ids) : ids[i] # None /\ \A j \in 1..(i - 1) : ids[j] # ids[i]}

\* the elements of a set of positions, in rank order
RECURSIVE InRankOrder(_)
InRankOrder(positions) ==
    IF positions = {} THEN <<>>
    ELSE LET first == CHOOSE i \in positions : \A j \in positions : i <= j
         IN  <<first>> \o InRankOrder(positions \ {first})

\* C9: semantic_search(query, limit, offset) returns exactly the elements
\* offset .. offset+limit-1 of the parent ids of the fetched chunks, each
\* kept at its first appearance, in rank order: at most limit ids, fewer
\* only if fewer unique ids were found, none if offset reaches their count.
C9_ReturnsTheSlice ==
    search_call.made =>
        LET ids == Resolutions(Fetched)
            first == InRankOrder(FirstAppearances(ids))
            unique == Len(first)
            offset == search_call.offset
            limit == search_call.limit
            size == IF unique - offset < 0 THEN 0 ELSE Min(limit, unique - offset)
        IN  /\ Len(search_returned) = size
            /\ \A n \in 1..size : search_returned[n] = ids[first[offset + n]][1]
            /\ Len(search_returned) <= limit
            /\ Len(search_returned) < limit => unique < offset + limit
            /\ offset >= unique => search_returned = <<>>

\* C9 happens: a call with an offset returned a page cut at the limit,
\* from more chunks than unique ids
C9_Witness ==
    /\ search_call.made
    /\ search_call.offset = 1
    /\ search_call.limit = 1
    /\ Len(ranking) = 5
    /\ search_returned = <<2>>
    /\ PostIdOfChunk(ranking[1]) = Some(1)
    /\ PostIdOfChunk(ranking[2]) = Some(1)

IsCommentOrReply(hit) ==
    /\ ORIGINAL_DOC_ID_KEY \in DOMAIN hit.metadata
    /\ \/ StartsWith(hit.metadata[ORIGINAL_DOC_ID_KEY], CommentPrefix)
       \/ StartsWith(hit.metadata[ORIGINAL_DOC_ID_KEY], ReplyPrefix)

IsPost(hit) ==
    /\ ORIGINAL_DOC_ID_KEY \in DOMAIN hit.metadata
    /\ StartsWith(hit.metadata[ORIGINAL_DOC_ID_KEY], PostPrefix)

\* the owning post's id a comment / reply hit carries, as an integer
CarriedPostId(hit) ==
    IF IsCommentOrReply(hit) /\ POST_ID_KEY \in DOMAIN hit.metadata
    THEN ParseInt(hit.metadata[POST_ID_KEY])
    ELSE None

\* the numeric suffix of a hit's own <kind>_<numericId>
OwnSuffix(hit) ==
    LET id == hit.metadata[ORIGINAL_DOC_ID_KEY]
    IN  ParseInt(SubSeq(id, Len(Split(id, "_")[1]) + 2, Len(id)))

\* C10: a comment / reply hit whose metadata carries the owning post's id
\* contributes that id; its own numeric suffix gets into the result only
\* as the id of a post hit or as the carried id of a comment / reply hit.
C10_CommentResolvesToOwningPost ==
    (search_call.made /\ search_call.offset = 0 /\ search_call.limit >= Len(ranking)) =>
        \A i \in 1..Len(ranking) :
            CarriedPostId(ranking[i]) # None =>
                /\ CarriedPostId(ranking[i])[1] \in Elems(search_returned)
                /\ (/\ OwnSuffix(ranking[i]) # None
                    /\ OwnSuffix(ranking[i])[1] \in Elems(search_returned))
                        => \E j \in 1..Len(ranking) :
                               \/ CarriedPostId(ranking[j]) = OwnSuffix(ranking[i])
                               \/ /\ IsPost(ranking[j])
                                  /\ PostIdOfChunk(ranking[j]) = OwnSuffix(ranking[i])

\* C10 happens: comment_9, carrying post id "41", is the one ranked hit
\* and the call returned 41
C10_Witness ==
    /\ search_call.made
    /\ ranking = <<HitOf(DocId(Comment, 9), [post_id |-> <<"4", "1">>])>>
    /\ search_returned = <<41>>

\* a hit that names no post: no metadata, no original_doc_id, an
\* original_doc_id of an unrecognized kind, or a comment / reply without a
\* stored post id
IsUnattributable(hit) ==
    \/ DOMAIN hit.metadata = {}
    \/ ORIGINAL_DOC_ID_KEY \notin DOMAIN hit.metadata
    \/ hit.metadata[ORIGINAL_DOC_ID_KEY] = <<>>
    \/ ~IsPost(hit) /\ ~IsCommentOrReply(hit)
    \/ /\ IsCommentOrReply(hit)
       /\ \/ POST_ID_KEY \notin DOMAIN hit.metadata
          \/ hit.metadata[POST_ID_KEY] = <<>>

\* the hits of a sequence that are not unattributable, in their order
WithoutUnattributable(chunks) ==
    LET Attributable(hit) == ~IsUnattributable(hit)
    IN  SelectSeq(chunks, Attributable)

\* C11: a hit that cannot be attributed to a post (unrecognized kind, no
\* original_doc_id, comment / reply without post id) adds no id to the
\* result, and the call returns what it returns for the same fetched hits
\* with the unattributable ones taken out.
C11_UnattributableHitsAreSkipped ==
    search_call.made =>
        /\ search_returned =
               PySlice(UniquePostIds(WithoutUnattributable(Fetched), <<>>),
                       search_call.offset, search_call.offset + search_call.limit)
        /\ (\A i \in 1..Len(Fetched) : IsUnattributable(Fetched[i]))
               => search_returned = <<>>
        /\ \A n \in 1..Len(search_returned) :
               \E i \in 1..Len(Fetched) :
                   /\ ~IsUnattributable(Fetched[i])
                   /\ PostIdOfChunk(Fetched[i]) = Some(search_returned[n])

\* C11 happens: widget_3 is ranked between the chunks of two posts, and
\* the call returned the two posts
C11_Witness ==
    /\ search_call.made
    /\ search_call.offset = 0
    /\ search_call.limit = 2
    /\ ranking = <<HitOf(DocId(Post, 1), <<>>), HitOf(Widget3, <<>>), HitOf(DocId(Post, 2), <<>>)>>
    /\ search_returned = <<1, 2>>

\* a hit whose numeric part is malformed: a post_ id whose remainder after
\* the prefix is no integer, or a comment / reply whose stored post id is
\* no integer
IsMalformed(hit) ==
    \/ IsPost(hit) /\ OwnSuffix(hit) = None
    \/ /\ IsCommentOrReply(hit)
       /\ POST_ID_KEY \in DOMAIN hit.metadata
       /\ hit.metadata[POST_ID_KEY] # <<>>
       /\ ParseInt(hit.metadata[POST_ID_KEY]) = None

\* C12: a hit with a malformed numeric suffix (post_, post_abc, post_12_x,
\* post_12abc, a comment whose post id is "4x") adds no id to the result:
\* every returned id is resolved from a fetched hit that is not malformed,
\* and a fetch of malformed hits alone returns nothing.
C12_MalformedSuffixIsSkipped ==
    search_call.made =>
        /\ \A n \in 1..Len(search_returned) :
               \E i \in 1..Len(Fetched) :
                   /\ ~IsMalformed(Fetched[i])
                   /\ PostIdOfChunk(Fetched[i]) = Some(search_returned[n])
        /\ (\A i \in 1..Len(Fetched) : IsMalformed(Fetched[i]))
               => search_returned = <<>>

-----------------------------------------------------------------------------
(* Pagination (SpecPage).                                                   *)

AllPagesFetched == pages.first # None /\ pages.second # None /\ pages.single # None

IsPrefix(s, t) == Len(s) <= Len(t) /\ SubSeq(t, 1, Len(s)) = s

\* C3 as stated: against an unchanged index, semantic_search(q, L, 0) and
\* semantic_search(q, L, L) are elements 0..L-1 and L..2L-1 of
\* semantic_search(q, 2L, 0), for every distribution of chunks per parent.
C3_PagesMakeTheSingleCall ==
    AllPagesFetched =>
        /\ pages.first[1] = PySlice(pages.single[1], 0, page_limit)
        /\ pages.second[1] = PySlice(pages.single[1], page_limit, 2 * page_limit)
        /\ pages.first[1] \o pages.second[1] = pages.single[1]

\* C3 amended: the second page is always elements L..2L-1 of the single
\* call; the first page is always a prefix of its elements 0..L-1, and is
\* those elements (so that the two pages concatenated are the single
\* call's result) whenever it is full, that is whenever the 5L best ranked
\* chunks resolve to at least L unique post ids, or when the index ranks
\* no more than 5L chunks.
C3_PagesConsistentWhenFirstPageFull ==
    AllPagesFetched =>
        /\ pages.second[1] = PySlice(pages.single[1], page_limit, 2 * page_limit)
        /\ IsPrefix(pages.first[1], PySlice(pages.single[1], 0, page_limit))
        /\ (\/ Len(pages.first[1]) = page_limit
            \/ Len(ranking) <= page_limit * OverFetchFactor)
               => /\ pages.first[1] = PySlice(pages.single[1], 0, page_limit)
                  /\ pages.first[1] \o pages.second[1] = pages.single[1]

\* C3 happens: the index ranks more chunks than the first page fetches,
\* several of them of one post, and both pages came back full
C3_Witness ==
    /\ AllPagesFetched
    /\ Len(ranking) > page_limit * OverFetchFactor
    /\ ranking[1] = ranking[2]
    /\ Len(pages.first[1]) = page_limit
    /\ Len(pages.second[1]) = page_limit

====
